---- MODULE Spec2Model ----
(***************************************************************************)
(* airtable-typegen: the field-type mappers (utils/field-mappings), the    *)
(* two code generators and the run of the command (the Main command).      *)
(*                                                                         *)
(* A string of generated code is a sequence of non-empty tokens; string    *)
(* concatenation is \o and the empty string is << >>.  Names that one      *)
(* fragment declares and another refers to are tokens of their own.        *)
(***************************************************************************)
EXTENDS Integers, Sequences, FiniteSets, TLC

VARIABLES
    pc,             \* position of Main.run
    flags,          \* parsed command-line flags (this.flags)
    baseId,         \* this.baseId
    accessToken,    \* this.accessToken is set
    remote,         \* what the Airtable metadata API serves
    cacheFile,      \* the --jsoncache file on disk
    baseMetadata,   \* this.baseMetadata   (<< >> is undefined)
    tableMetadata,  \* this.tableMetadata  (<< >> is undefined)
    shouldWriteJson,\* this.shouldWriteJson
    cacheRead,      \* outcome of tryReadJsonCache: "notTried", "hit", "miss"
    fetched,        \* the requests made through fetchAirtableApi, in order
    baseMeta,       \* run's local baseMeta  (<< >> before it is set)
    tableMeta,      \* run's local tableMeta, the selected tables
    data,           \* run's local data: the generated module, as lines
    outputFile,     \* the output file on disk
    error,          \* the fatal error that ended the run ("" when none)
    writes,         \* the files the run has written, in order
    call,           \* the last direct call of a mapper and its outcome
    cached,         \* CachedQuery.cached  (<< >> is undefined)
    selects,        \* the table.select calls issued so far
    flushMark,      \* the number of selects issued when flush() last returned
    fetchers        \* the calls of CachedQuery.fetch and where each stands

vars == << pc, flags, baseId, accessToken, remote, cacheFile, baseMetadata,
           tableMetadata, shouldWriteJson, cacheRead, fetched, baseMeta,
           tableMeta, data, outputFile, error, writes, call,
           cached, selects, flushMark, fetchers >>

\* the state of a CachedQuery and of its callers
cqVars == << cached, selects, flushMark, fetchers >>

----------------------------------------------------------------------------
(* Bounds *)

\* longest choice list of a select field
MaxChoices == 2
\* most tables in a base
MaxTables == 2
\* most fields in the tables of a base, all tables together
MaxFields == 3
\* most entries of the --tables allow-list
MaxAllow == 2
\* most calls of CachedQuery.fetch on one instance
MaxFetches == 3

----------------------------------------------------------------------------
(* Field metadata *)

None == "none"

\* the closed enumeration of field-type tags: the cases of the two switches
FieldTypes ==
    { "aiText", "autoNumber", "barcode", "button", "checkbox", "count",
      "createdBy", "createdTime", "currency", "date", "dateTime", "duration",
      "email", "externalSyncSource", "formula", "lastModifiedBy",
      "lastModifiedTime", "multilineText", "multipleAttachments",
      "multipleCollaborators", "multipleLookupValues", "multipleRecordLinks",
      "multipleSelects", "number", "percent", "phoneNumber", "rating",
      "richText", "rollup", "singleCollaborator", "singleLineText",
      "singleSelect", "url" }

\* a tag outside the enumeration
UnknownTypes == { "futureType" }

ChoiceNames == { "Red", "Green", "Blue" }

RECURSIVE SeqsUpTo(_, _)
SeqsUpTo(S, n) ==
    IF n = 0 THEN { << >> }
    ELSE LET shorter == SeqsUpTo(S, n - 1)
         IN  shorter \cup { Append(s, x) : s \in shorter, x \in S }

IsInjective(s) == \A i, j \in 1..Len(s) : s[i] = s[j] => i = j

\* choice lists: ordered, names unique within the field
ChoiceLists == { s \in SeqsUpTo(ChoiceNames, MaxChoices) : IsInjective(s) }

Field(name, type, precision, choices, linkedTableId, resultType) ==
    [ name |-> name, type |-> type,
      options |-> [ precision |-> precision, choices |-> choices,
                    linkedTableId |-> linkedTableId,
                    resultType |-> resultType ] ]

PlainField(name, type) == Field(name, type, None, << >>, None, None)

----------------------------------------------------------------------------
(* Helpers of utils/helpers and of the change-case library *)

pascalCase(s) ==
    CASE s = "my projects" -> "MyProjects"
      [] s = "My Projects" -> "MyProjects"
      [] s = "favourite colour" -> "FavouriteColour"
      [] s = "my base" -> "MyBase"
      [] OTHER -> s

isReadonlyField(field) ==
    field.type \in { "autoNumber", "count", "createdBy", "createdTime",
                     "formula", "lastModifiedBy", "lastModifiedTime",
                     "rollup", "externalSyncSource" }

hasAttachmentField(fields) ==
    \E i \in 1..Len(fields) : fields[i].type = "multipleAttachments"

hasCollaboratorField(fields) ==
    \E i \in 1..Len(fields) :
        fields[i].type \in { "createdBy", "lastModifiedBy",
                             "singleCollaborator", "multipleCollaborators" }

getFieldEnumName(table, field) ==
    << pascalCase(table.name), pascalCase(field.name), "Enum" >>

----------------------------------------------------------------------------
(* utils/field-mappings *)

Return(text) == [ kind |-> "return", text |-> text ]
Throw(text) == [ kind |-> "throw", text |-> text ]

UnrecognizedFieldTypeMut(field) == Return(<< "unknown" >>)

UnrecognizedFieldType(field) ==
    Throw(<< "Unrecognized field type: ", field.type, " (on field '",
             field.name, "')" >>)

ZodRecordLinksTypeMut == << "z.array(", "z.unknown()", ")" >>

\* the type of a multipleRecordLinks field
ZodRecordLinksType == << "z.array(", "z.string()", ")" >>

getZodType(table, field) ==
    LET t == field.type IN
    CASE t = "autoNumber" -> Return(<< "z.number().int().positive()" >>)
      [] t = "barcode" ->
            Return(<< "z.object({ text: z.string(), type: z.string() })" >>)
      [] t = "button" ->
            Return(<< "z.object({ label: z.string() }).merge(z.record(z.unknown()))" >>)
      [] t = "checkbox" -> Return(<< "z.boolean()" >>)
      [] t = "count" -> Return(<< "z.number().int().nonnegative()" >>)
      [] t \in { "createdBy", "lastModifiedBy", "singleCollaborator" } ->
            Return(<< "AirtableCollaboratorSchema" >>)
      [] t \in { "date", "dateTime", "createdTime", "lastModifiedTime" } ->
            Return(<< "z.coerce.date()" >>)
      [] t \in { "number", "percent", "currency" } ->
            IF field.options.precision = "0"
            THEN Return(<< "z.number().int().positive()" >>)
            ELSE Return(<< "z.number().positive()" >>)
      [] t = "duration" -> Return(<< "z.number()" >>)
      [] t = "rating" -> Return(<< "z.number().min(0).max(5)" >>)
      [] t = "email" -> Return(<< "z.string().email()" >>)
      [] t \in { "aiText", "multilineText", "phoneNumber", "singleLineText",
                 "url", "richText" } -> Return(<< "z.string()" >>)
      [] t \in { "rollup", "formula" } ->
            Return(<< "z.string().or(z.number())" >>)
      [] t = "multipleCollaborators" ->
            Return(<< "z.array(", "AirtableCollaboratorSchema", ")" >>)
      [] t = "multipleAttachments" ->
            Return(<< "z.array(", "AirtableAttachmentSchema", ")" >>)
      [] t = "multipleLookupValues" ->
            Return(<< "z.union([z.array(z.string()), z.array(z.boolean()), z.array(z.number()), z.array(z.record(z.unknown()))])" >>)
      [] t = "multipleRecordLinks" -> Return(ZodRecordLinksType)
      [] t = "singleSelect" -> Return(getFieldEnumName(table, field))
      [] t = "multipleSelects" ->
            Return(<< "z.array(" >> \o getFieldEnumName(table, field) \o << ")" >>)
      [] t = "externalSyncSource" -> Return(<< "z.unknown()" >>)
      [] OTHER -> UnrecognizedFieldType(field)

CollaboratorZodTmpl ==
    << "export const ", "AirtableCollaboratorSchema",
       " = z.object({ id: z.string(), email: z.string(), name: z.string() })" >>

AttachmentZodTmpl ==
    << "export const ", "AirtableThumbnailSchema",
       " = z.object({ url: z.string(), width: z.number(), height: z.number() })" >>

\* printNode(CellFormatTypescriptDefinitions[type])
getTsForFieldType(type) ==
    CASE type \in { "aiText", "email", "multilineText", "phoneNumber",
                    "richText", "singleLineText", "url", "date", "dateTime",
                    "createdTime", "lastModifiedTime", "singleSelect" } ->
            << "string" >>
      [] type \in { "autoNumber", "count", "currency", "duration", "number",
                    "percent", "rating" } -> << "number" >>
      [] type = "checkbox" -> << "boolean" >>
      [] type = "barcode" -> << "{ text: string; type?: string }" >>
      [] type = "button" -> << "{ label: string; url: string | null }" >>
      [] type \in { "multipleRecordLinks", "multipleSelects" } ->
            << "string[]" >>
      [] type \in { "formula", "rollup" } -> << "string | number" >>
      [] type = "multipleLookupValues" ->
            << "Array<string | boolean | number | Record<string, unknown>>" >>
      [] type \in { "createdBy", "lastModifiedBy", "singleCollaborator" } ->
            << "{ id: string; email: string; name: string }" >>
      [] type = "multipleCollaborators" ->
            << "Array<{ id: string; email: string; name: string }>" >>
      [] type = "multipleAttachments" -> << "Array<{ id: string; url: string }>" >>
      [] OTHER -> << "unknown" >>

\* array.map((choice) => `'${choice.name}'`).join(' | ')
RECURSIVE JoinChoices(_)
JoinChoices(choices) ==
    IF Len(choices) = 0 THEN << >>
    ELSE IF Len(choices) = 1 THEN << "'", choices[1], "'" >>
    ELSE << "'", choices[1], "'", " | " >> \o JoinChoices(Tail(choices))

getTsType(field, opts) ==
    LET t == field.type IN
    CASE t \in { "aiText", "button" } ->
            IF opts.useAirtableLibraryTypes THEN Return(<< "string" >>)
            ELSE Return(getTsForFieldType(t))
      [] t \in { "autoNumber", "barcode", "checkbox", "count", "currency",
                 "date", "dateTime", "duration", "email", "externalSyncSource",
                 "multilineText", "multipleCollaborators",
                 "multipleRecordLinks", "number", "percent", "phoneNumber",
                 "rating", "richText", "singleLineText", "url" } ->
            Return(getTsForFieldType(t))
      [] t \in { "createdBy", "lastModifiedBy", "singleCollaborator" } ->
            IF opts.useAirtableLibraryTypes
            THEN Return(<< "Airtable", ".Collaborator" >>)
            ELSE Return(<< "IAirtableCollaborator" >>)
      [] t = "multipleAttachments" ->
            IF opts.useAirtableLibraryTypes
            THEN Return(<< "Airtable", ".Attachment[]" >>)
            ELSE Return(<< "Array<", "IAirtableAttachment", ">" >>)
      [] t \in { "createdTime", "formula", "lastModifiedTime",
                 "multipleLookupValues", "rollup" } ->
            Return(getTsForFieldType(
                IF field.options.resultType # None
                THEN field.options.resultType ELSE t))
      [] t = "singleSelect" -> Return(JoinChoices(field.options.choices))
      [] t = "multipleSelects" ->
            Return(<< "Array<" >> \o JoinChoices(field.options.choices)
                   \o << ">" >>)
      [] OTHER -> UnrecognizedFieldType(field)

getAdditionalTsForAttachments ==
    << "export interface ", "IAirtableThumbnail",
       " { url: string; width: number; height: number }",
       "export interface ", "IAirtableAttachment",
       " { id: string; url: string; filename: string; size: number; type: string; thumbnails?: { small: ",
       "IAirtableThumbnail", "; large: ", "IAirtableThumbnail", "; full: ",
       "IAirtableThumbnail", " } }" >>

getAdditionalTsForCollaborators ==
    << "export interface ", "IAirtableCollaborator",
       " { id: string; email: string; name: string }" >>

----------------------------------------------------------------------------
(* The generators of the Main command *)

\* one element of the generator's `lines`; table and field say which table
\* and field of the input the line was pushed for (0: none)
Line(kind, ti, fi, text) ==
    [ kind |-> kind, table |-> ti, field |-> fi, text |-> text ]

Blank(ti) == Line("blank", ti, 0, << >>)

RECURSIVE Concat(_)
Concat(ss) == IF Len(ss) = 0 THEN << >> ELSE Head(ss) \o Concat(Tail(ss))

\* tables.map((t) => t.fields).flat()
AllFields(tables) == Concat([ i \in 1..Len(tables) |-> tables[i].fields ])

\* the outcome of evaluating results in order: the first throw, if any
FirstThrow(results) ==
    LET bad == { i \in 1..Len(results) : results[i].kind = "throw" }
    IN  IF bad = {} THEN << >>
        ELSE << results[CHOOSE i \in bad : \A j \in bad : i <= j] >>

ZodEnumLines(tables, ti, fi) ==
    LET table == tables[ti]
        field == table.fields[fi]
        choices == field.options.choices
    IN  IF field.type \in { "singleSelect", "multipleSelects" }
        THEN << Line("enumOpen", ti, fi,
                     << "export const " >> \o getFieldEnumName(table, field)
                     \o << " = z.enum([" >>) >>
             \o [ c \in 1..Len(choices) |->
                    Line("enumChoice", ti, fi, << "  '", choices[c], "'," >>) ]
             \o << Line("enumClose", ti, fi, << "])" >>), Blank(ti) >>
        ELSE << >>

ZodSuffixMut(isReadonly) == << ".optional()," >>

ZodSuffix(isReadonly) == IF isReadonly THEN << "," >> ELSE << ".optional()," >>

ZodFieldLine(tables, ti, fi) ==
    LET table == tables[ti]
        field == table.fields[fi]
        fieldType == getZodType(table, field).text
    IN  Line("field", ti, fi,
             << "  '", field.name, "': " >> \o fieldType
             \o ZodSuffix(isReadonlyField(field)))

ZodTableBlock(tables, ti) ==
    LET table == tables[ti]
        n == Len(table.fields)
        tableTypeName == pascalCase(table.name)
    IN  Concat([ fi \in 1..n |-> ZodEnumLines(tables, ti, fi) ])
        \o << Line("tableOpen", ti, 0,
                   << "export const ", tableTypeName, "Schema",
                      " = z.object({" >>) >>
        \o [ fi \in 1..n |-> ZodFieldLine(tables, ti, fi) ]
        \o << Line("tableClose", ti, 0, << "})" >>),
              Line("tableType", ti, 0,
                   << "export type ", tableTypeName, " = z.infer<typeof ",
                      tableTypeName, "Schema", ">" >>),
              Blank(ti) >>

ZodSharedShapesMut(allFields) ==
    Concat([ i \in 1..Len(allFields) |->
               IF allFields[i].type = "multipleAttachments"
               THEN << Line("attachmentShape", 0, 0, AttachmentZodTmpl), Blank(0) >>
               ELSE << >> ])
    \o (IF hasCollaboratorField(allFields)
        THEN << Line("collaboratorShape", 0, 0, CollaboratorZodTmpl), Blank(0) >>
        ELSE << >>)

\* the shared shapes pushed before the loop over the tables
ZodSharedShapes(allFields) ==
    (IF hasAttachmentField(allFields)
     THEN << Line("attachmentShape", 0, 0, AttachmentZodTmpl), Blank(0) >>
     ELSE << >>)
    \o (IF hasCollaboratorField(allFields)
        THEN << Line("collaboratorShape", 0, 0, CollaboratorZodTmpl), Blank(0) >>
        ELSE << >>)

generateZodSchemas(base, tables) ==
    LET allFields == AllFields(tables)
        thrown == FirstThrow(Concat(
            [ ti \in 1..Len(tables) |->
                [ fi \in 1..Len(tables[ti].fields) |->
                    getZodType(tables[ti], tables[ti].fields[fi]) ] ]))
        head == << Line("import", 0, 0, << "import { ", "z", " } from 'zod'" >>),
                   Blank(0) >>
    IN  IF thrown # << >> THEN thrown[1]
        ELSE Return(head \o ZodSharedShapes(allFields)
                    \o Concat([ ti \in 1..Len(tables) |-> ZodTableBlock(tables, ti) ]))

\* tables.filter((t) => t.id == linkedTableId).map(pascalCase(t.name) + 'Id').pop(),
\* 'AirtableUid' when there is none
LinkedTableIdTypeMut(tables, field) ==
    LET hits == { i \in 1..Len(tables) : tables[i].name = field.options.linkedTableId }
    IN  IF hits = {} THEN << "AirtableUid" >>
        ELSE LET last == CHOOSE i \in hits : \A j \in hits : j <= i
             IN  << pascalCase(tables[last].name), "Id" >>

LinkedTableIdType(tables, field) ==
    LET hits == { i \in 1..Len(tables) : tables[i].id = field.options.linkedTableId }
    IN  IF hits = {} THEN << "AirtableUid" >>
        ELSE LET last == CHOOSE i \in hits : \A j \in hits : j <= i
             IN  << pascalCase(tables[last].name), "Id" >>

TsFieldType(tables, field, fl) ==
    IF fl.id /\ field.type = "multipleRecordLinks"
    THEN << "Array<" >> \o LinkedTableIdType(tables, field) \o << ">" >>
    ELSE getTsType(field, [ useAirtableLibraryTypes |-> fl.controllers ]).text

TsMarker(isReadonly) == IF isReadonly THEN << >> ELSE << "?" >>

TsFieldLine(tables, ti, fi, fl) ==
    LET field == tables[ti].fields[fi]
    IN  Line("field", ti, fi,
             << "  '", field.name, "'" >> \o TsMarker(isReadonlyField(field))
             \o << ": " >> \o TsFieldType(tables, field, fl))

TsTableBlock(tables, ti, fl) ==
    LET table == tables[ti]
        tableName == pascalCase(table.name)
    IN  << Blank(ti),
           Line("idType", ti, 0,
                << "export type ", tableName, "Id", " = ", "AirtableUid", ";" >>),
           Blank(ti),
           Line("tableOpen", ti, 0,
                << "export interface ", tableName >>
                \o (IF fl.controllers
                    THEN << " extends ", "FieldSetWithId", "<", tableName, "Id", ">" >>
                    ELSE << >>)
                \o << " {" >>),
           Line("idField", ti, 0,
                << "  _id?: ", tableName, "Id",
                   "; // not respected by the official Airtable Library" >>) >>
        \o [ fi \in 1..Len(table.fields) |-> TsFieldLine(tables, ti, fi, fl) ]
        \o << Line("tableClose", ti, 0, << "}" >>), Blank(ti) >>

TsScaffold(base, tables) ==
    LET className == << pascalCase(base.name), "Base" >>
    IN  << Line("scaffold", 0, 0,
                << "export class ", "TypedTable", "<ID extends ", "AirtableUid",
                   ", T extends ", "FieldSetWithId", "<ID>> { readonly table: ",
                   "Airtable", ".Table<T> ... }", "export class " >>
                \o className
                \o << " { readonly at: ", "Airtable", "; static readonly _id: string = '",
                      base.id, "'; static readonly _name: string = '", base.name,
                      "' ..." >>),
           Blank(0) >>
        \o [ ti \in 1..Len(tables) |->
               LET tname == pascalCase(tables[ti].name)
               IN  Line("accessor", ti, 0,
                        << "  get", tname, "Table = ()=> new ", "TypedTable", "<",
                           tname, "Id", ", ", tname, ">(this.base, '",
                           tables[ti].id, "', '", tables[ti].name, "');" >>) ]
        \o << Line("scaffoldClose", 0, 0, << "}" >>), Blank(0) >>

\* the import or the shared shapes pushed first
TsSharedShapes(allFields, fl) ==
    IF fl.controllers
    THEN << Line("import", 0, 0, << "import ", "Airtable", " from 'airtable';" >>) >>
    ELSE (IF hasAttachmentField(allFields)
          THEN << Line("attachmentShape", 0, 0, getAdditionalTsForAttachments),
                  Blank(0) >>
          ELSE << >>)
         \o (IF hasCollaboratorField(allFields)
             THEN << Line("collaboratorShape", 0, 0, getAdditionalTsForCollaborators),
                     Blank(0) >>
             ELSE << >>)

generateTSDefinitions(base, tables, fl) ==
    LET allFields == AllFields(tables)
        tsOpts == [ useAirtableLibraryTypes |-> fl.controllers ]
        thrown == FirstThrow(Concat(
            [ ti \in 1..Len(tables) |->
                [ fi \in 1..Len(tables[ti].fields) |->
                    getTsType(tables[ti].fields[fi], tsOpts) ] ]))
        head == TsSharedShapes(allFields, fl)
        types == << Line("uidType", 0, 0,
                         << "export type ", "AirtableUid", " = string;" >>),
                    Line("fieldSetType", 0, 0,
                         << "export type ", "FieldSetWithId", "<T extends ",
                            "AirtableUid", "> = Omit<", "Airtable",
                            ".FieldSet, keyof ", "Airtable",
                            ".FieldSet> & { _id?: T };" >>) >>
    IN  IF thrown # << >> THEN thrown[1]
        ELSE Return(head \o types
                    \o Concat([ ti \in 1..Len(tables) |-> TsTableBlock(tables, ti, fl) ])
                    \o (IF fl.controllers THEN TsScaffold(base, tables) ELSE << >>))

----------------------------------------------------------------------------
(* The inputs: bases, tables, fields, flags, cache files *)

TableIdAt(i) ==
    CASE i = 1 -> "tbl1" [] i = 2 -> "tbl2" [] i = 3 -> "tbl3" [] OTHER -> "tbl4"

TableNameAt(i) ==
    CASE i = 1 -> "Tasks" [] i = 2 -> "my projects" [] i = 3 -> "My Projects"
      [] OTHER -> "People"

LinkField(target) == Field("Links", "multipleRecordLinks", None, << >>, target, None)

\* the fields of the tables the generators are run on; "tbl9" is no table
GenFieldPool ==
    { PlainField("Num", "autoNumber"),
      PlainField("Files", "multipleAttachments"),
      PlainField("Owner", "singleCollaborator"),
      LinkField("tbl1"), LinkField("tbl2"), LinkField("tbl9"),
      Field("favourite colour", "singleSelect", None, << "Red", "Green" >>, None, None),
      PlainField("Weird", "futureType") }

\* owner[i] is the table of the i-th field of a base: the fields of a table
\* are contiguous, tables are numbered from 1 and none is empty
IsSplit(owner) ==
    /\ owner[1] = 1
    /\ \A i \in 2..Len(owner) : owner[i] \in { owner[i - 1], owner[i - 1] + 1 }

\* the tables of a base, from its fields in order and the table of each
TablesFrom(flat, owner) ==
    [ t \in 1..owner[Len(owner)] |->
        LET mine == { i \in 1..Len(owner) : owner[i] = t }
            lo == CHOOSE i \in mine : \A j \in mine : i <= j
        IN  [ id |-> TableIdAt(t), name |-> TableNameAt(t),
              fields |-> [ j \in 1..Cardinality(mine) |-> flat[lo + j - 1] ] ] ]

\* the tables of the base a whole run works on: one field each, names free
RunNames == { "Tasks", "my projects" }
RunFieldLists == { << PlainField("Num", "autoNumber") >>,
                   << PlainField("Weird", "futureType") >> }

RunTables ==
    UNION { { [ i \in 1..n |-> [ id |-> TableIdAt(i), name |-> f[i].name,
                                 fields |-> f[i].fields ] ] :
              f \in [ 1..n -> [ name : RunNames, fields : RunFieldLists ] ] } :
            n \in 1..MaxTables }

AllowEntries == { "tbl1", "Tasks", "Nope" }

\* flags.tables?.split(','): undefined (<< >>) or a list of one entry or more
AllowLists ==
    { << >> } \cup { << a >> : a \in { l \in SeqsUpTo(AllowEntries, MaxAllow) : Len(l) >= 1 } }

TheBase == [ id |-> "app1", name |-> "my base" ]

BaseList(bases) == [ shapeOk |-> TRUE, bases |-> bases ]
TableList(tables) == [ shapeOk |-> TRUE, tables |-> tables ]
MalformedBaseList == [ shapeOk |-> FALSE, bases |-> << >> ]
MalformedTableList == [ shapeOk |-> FALSE, tables |-> << >> ]

NoJson == [ baseMetadata |-> << >>, tableMetadata |-> << >> ]
NoFile == [ exists |-> FALSE, parses |-> FALSE, json |-> NoJson ]

\* the cache files a run can find: none, not JSON, a key missing, both keys
\* holding something that is no metadata, and a cache an earlier run wrote
CacheFiles(rem) ==
    { NoFile,
      [ exists |-> TRUE, parses |-> FALSE, json |-> NoJson ],
      [ exists |-> TRUE, parses |-> TRUE,
        json |-> [ baseMetadata |-> << BaseList(rem.bases) >>, tableMetadata |-> << >> ] ],
      [ exists |-> TRUE, parses |-> TRUE,
        json |-> [ baseMetadata |-> << MalformedBaseList >>,
                   tableMetadata |-> << MalformedTableList >> ] ],
      [ exists |-> TRUE, parses |-> TRUE,
        json |-> [ baseMetadata |-> << BaseList(rem.bases) >>,
                   tableMetadata |-> << TableList(rem.tables) >> ] ] }

NoError == [ kind |-> "", text |-> << >> ]
NoOutput == [ exists |-> FALSE, content |-> << >> ]
NoCall == [ fn |-> "none", field |-> PlainField("", ""),
            useAirtableLibraryTypes |-> FALSE, result |-> Return(<< >>) ]

IdleFetch == [ pc |-> "idle", mark |-> 0, select |-> 0, result |-> 0 ]

\* a CachedQuery right after its construction, fetch not called yet
NoCachedQuery ==
    /\ cached = << >>
    /\ selects = 0
    /\ flushMark = 0
    /\ fetchers = [ i \in 1..MaxFetches |-> IdleFetch ]

----------------------------------------------------------------------------
(* Main.run and the methods it awaits *)

Abort(kind, text) ==
    /\ pc' = "aborted"
    /\ error' = [ kind |-> kind, text |-> text ]

IsNullishMut(value) == TRUE

\* a ?? (this.x = await fetch...): the right-hand side runs when a is undefined
IsNullish(value) == value = << >>

\* json && json.baseMetadata && json.tableMetadata
CacheUsable(file) ==
    /\ file.exists
    /\ file.parses
    /\ file.json.baseMetadata # << >>
    /\ file.json.tableMetadata # << >>

\* run, lines 126-130, with tryReadJsonCache
TryReadJsonCache ==
    /\ pc = "start"
    /\ pc' = "getBase"
    /\ IF flags.jsoncache
       THEN IF CacheUsable(cacheFile)
            THEN /\ baseMetadata' = cacheFile.json.baseMetadata
                 /\ tableMetadata' = cacheFile.json.tableMetadata
                 /\ cacheRead' = "hit"
                 /\ UNCHANGED shouldWriteJson
            ELSE /\ shouldWriteJson' = TRUE
                 /\ baseMetadata' = << >>
                 /\ tableMetadata' = << >>
                 /\ cacheRead' = "miss"
       ELSE UNCHANGED << baseMetadata, tableMetadata, cacheRead, shouldWriteJson >>
    /\ UNCHANGED << flags, baseId, accessToken, remote, cacheFile, fetched,
                    baseMeta, tableMeta, data, outputFile, error, writes, call, cqVars >>

\* metadata.bases.find((b) => b.id === this.baseId)
FindBase(bases, id) ==
    LET hits == { i \in 1..Len(bases) : bases[i].id = id }
    IN  IF hits = {} THEN << >>
        ELSE << bases[CHOOSE i \in hits : \A j \in hits : i <= j] >>

GetBaseMetadata ==
    /\ pc = "getBase"
    /\ IF IsNullish(baseMetadata) /\ ~accessToken
       THEN /\ Abort("NoAccessToken", << "No Airtable Access Token token provided." >>)
            /\ UNCHANGED << baseMetadata, fetched, baseMeta >>
       ELSE LET fetch == IsNullish(baseMetadata)
                res == IF fetch THEN BaseList(remote.bases) ELSE baseMetadata[1]
                found == FindBase(res.bases, baseId)
            IN  /\ baseMetadata' = << res >>
                /\ fetched' = IF fetch THEN Append(fetched, "/meta/bases") ELSE fetched
                /\ IF ~res.shapeOk
                   THEN /\ Abort("MetadataValidationFailure", << "ZodError" >>)
                        /\ UNCHANGED baseMeta
                   ELSE IF found = << >>
                   THEN /\ Abort("BaseNotFound", << "Could not find base with ID ", baseId >>)
                        /\ UNCHANGED baseMeta
                   ELSE /\ baseMeta' = found
                        /\ pc' = "getTables"
                        /\ UNCHANGED error
    /\ UNCHANGED << flags, baseId, accessToken, remote, cacheFile, tableMetadata,
                    shouldWriteJson, cacheRead, tableMeta, data, outputFile, writes, call, cqVars >>

\* allowlist.includes(x)
Includes(list, x) == \E i \in 1..Len(list) : list[i] = x

\* the loop of lines 198-203
RECURSIVE FilterTables(_, _)
FilterTables(tables, allowlist) ==
    IF Len(tables) = 0 THEN << >>
    ELSE LET table == Head(tables)
             rest == FilterTables(Tail(tables), allowlist)
         IN  IF Includes(allowlist, table.id) \/ Includes(allowlist, table.name)
             THEN << table >> \o rest
             ELSE rest

\* the test of line 205
SelectionMismatch(tables, allowlist) == Len(tables) # Len(allowlist)

\* array.join(', ')
RECURSIVE Join(_)
Join(ss) ==
    IF Len(ss) = 0 THEN << >>
    ELSE IF Len(ss) = 1 THEN << ss[1] >>
    ELSE << ss[1], ", " >> \o Join(Tail(ss))

GetTableMetadata ==
    /\ pc = "getTables"
    /\ IF IsNullish(tableMetadata) /\ ~accessToken
       THEN /\ Abort("NoAccessToken", << "No Airtable Access Token token provided." >>)
            /\ UNCHANGED << tableMetadata, fetched, tableMeta >>
       ELSE LET fetch == IsNullish(tableMetadata)
                res == IF fetch THEN TableList(remote.tables) ELSE tableMetadata[1]
            IN  /\ tableMetadata' = << res >>
                /\ fetched' = IF fetch THEN Append(fetched, "/meta/bases/{baseId}/tables")
                              ELSE fetched
                /\ IF ~res.shapeOk
                   THEN /\ Abort("MetadataValidationFailure", << "ZodError" >>)
                        /\ UNCHANGED tableMeta
                   ELSE IF flags.tables = << >>
                   THEN /\ tableMeta' = res.tables
                        /\ pc' = "generate"
                        /\ UNCHANGED error
                   ELSE LET allowlist == flags.tables[1]
                            tables == FilterTables(res.tables, allowlist)
                        IN  IF SelectionMismatch(tables, allowlist)
                            THEN /\ Abort("TableSelectionMismatch",
                                          << "Could not find all tables:\n\nRequested: " >>
                                          \o Join(allowlist) \o << "\nFound: " >>
                                          \o Join([ i \in 1..Len(tables) |-> tables[i].name ]))
                                 /\ UNCHANGED tableMeta
                            ELSE /\ tableMeta' = tables
                                 /\ pc' = "generate"
                                 /\ UNCHANGED error
    /\ UNCHANGED << flags, baseId, accessToken, remote, cacheFile, baseMetadata,
                    shouldWriteJson, cacheRead, baseMeta, data, outputFile, writes, call, cqVars >>

\* run, lines 135-142
Generate ==
    /\ pc = "generate"
    /\ LET res == IF flags.zod
                  THEN generateZodSchemas(baseMeta[1], tableMeta)
                  ELSE generateTSDefinitions(baseMeta[1], tableMeta, flags)
       IN  IF res.kind = "throw"
           THEN /\ Abort("UnrecognizedFieldType", res.text)
                /\ UNCHANGED data
           ELSE /\ data' = res.text
                /\ pc' = "ensureFile"
                /\ UNCHANGED error
    /\ UNCHANGED << flags, baseId, accessToken, remote, cacheFile, baseMetadata,
                    tableMetadata, shouldWriteJson, cacheRead, fetched, baseMeta,
                    tableMeta, outputFile, writes, call, cqVars >>

EnsureFileMut ==
    /\ pc \in { "generate", "ensureFile" }
    /\ ~outputFile.exists
    /\ outputFile' = [ outputFile EXCEPT !.exists = TRUE ]
    /\ pc' = IF pc = "ensureFile" THEN "writeFile" ELSE pc
    /\ writes' = Append(writes, "ensureFile(output)")
    /\ UNCHANGED << flags, baseId, accessToken, remote, cacheFile, baseMetadata,
                    tableMetadata, shouldWriteJson, cacheRead, fetched, baseMeta,
                    tableMeta, data, error, call, cqVars >>

\* run, line 146: fs.ensureFile(output)
EnsureFile ==
    /\ pc = "ensureFile"
    /\ outputFile' = [ outputFile EXCEPT !.exists = TRUE ]
    /\ pc' = "writeFile"
    /\ writes' = Append(writes, "ensureFile(output)")
    /\ UNCHANGED << flags, baseId, accessToken, remote, cacheFile, baseMetadata,
                    tableMetadata, shouldWriteJson, cacheRead, fetched, baseMeta,
                    tableMeta, data, error, call, cqVars >>

\* run, line 147: fs.writeFile(output, data)
WriteFile ==
    /\ pc = "writeFile"
    /\ outputFile' = [ exists |-> TRUE, content |-> data ]
    /\ pc' = "writeCache"
    /\ writes' = Append(writes, "writeFile(output)")
    /\ UNCHANGED << flags, baseId, accessToken, remote, cacheFile, baseMetadata,
                    tableMetadata, shouldWriteJson, cacheRead, fetched, baseMeta,
                    tableMeta, data, error, call, cqVars >>

WriteJsonCacheMut ==
    /\ pc = "writeCache"
    /\ cacheFile' = IF flags.jsoncache
                    THEN [ exists |-> TRUE, parses |-> TRUE,
                           json |-> [ baseMetadata |-> baseMetadata,
                                      tableMetadata |-> tableMetadata ] ]
                    ELSE cacheFile
    /\ writes' = IF flags.jsoncache
                 THEN Append(writes, "writeJSON(jsoncache)") ELSE writes
    /\ pc' = "done"
    /\ UNCHANGED << flags, baseId, accessToken, remote, baseMetadata,
                    tableMetadata, shouldWriteJson, cacheRead, fetched, baseMeta,
                    tableMeta, data, outputFile, error, call, cqVars >>

\* run, lines 149-158
WriteJsonCache ==
    /\ pc = "writeCache"
    /\ cacheFile' = IF flags.jsoncache /\ shouldWriteJson
                    THEN [ exists |-> TRUE, parses |-> TRUE,
                           json |-> [ baseMetadata |-> baseMetadata,
                                      tableMetadata |-> tableMetadata ] ]
                    ELSE cacheFile
    /\ writes' = IF flags.jsoncache /\ shouldWriteJson
                 THEN Append(writes, "writeJSON(jsoncache)") ELSE writes
    /\ pc' = "done"
    /\ UNCHANGED << flags, baseId, accessToken, remote, baseMetadata,
                    tableMetadata, shouldWriteJson, cacheRead, fetched, baseMeta,
                    tableMeta, data, outputFile, error, call, cqVars >>

Flags(zod, id, controllers, jsoncache, tables) ==
    [ zod |-> zod, id |-> id, controllers |-> controllers,
      jsoncache |-> jsoncache, tables |-> tables ]

\* a run from its start
Init ==
    /\ pc = "start"
    /\ \E zod \in BOOLEAN, id \in BOOLEAN, controllers \in BOOLEAN,
          jsoncache \in BOOLEAN, tables \in AllowLists :
          flags = Flags(zod, id, controllers, jsoncache, tables)
    /\ baseId \in { "app1", "app2" }
    /\ accessToken \in BOOLEAN
    /\ \E tables \in RunTables : remote = [ bases |-> << TheBase >>, tables |-> tables ]
    /\ cacheFile \in CacheFiles(remote)
    /\ flags.jsoncache \/ cacheFile = NoFile
    /\ baseMetadata = << >>
    /\ tableMetadata = << >>
    /\ shouldWriteJson = FALSE
    /\ cacheRead = "notTried"
    /\ fetched = << >>
    /\ baseMeta = << >>
    /\ tableMeta = << >>
    /\ data = << >>
    /\ outputFile = NoOutput
    /\ error = NoError
    /\ writes = << >>
    /\ call = NoCall
    /\ NoCachedQuery

Next ==
    \/ TryReadJsonCache
    \/ GetBaseMetadata
    \/ GetTableMetadata
    \/ Generate
    \/ EnsureFile
    \/ WriteFile
    \/ WriteJsonCache

Spec == Init /\ [][Next]_vars

----------------------------------------------------------------------------
(* The generators on their own: a run that has its metadata, with every    *)
(* combination of --zod, --id and --controllers                            *)

InitGen ==
    /\ pc = "generate"
    /\ \E zod \in BOOLEAN, id \in BOOLEAN, controllers \in BOOLEAN :
          flags = Flags(zod, id, controllers, FALSE, << >>)
    /\ baseId = "app1"
    /\ accessToken = TRUE
    /\ \E m \in 1..MaxFields :
          \E flat \in [ 1..m -> GenFieldPool ], owner \in [ 1..m -> 1..MaxTables ] :
              /\ IsSplit(owner)
              /\ remote = [ bases |-> << TheBase >>, tables |-> TablesFrom(flat, owner) ]
    /\ cacheFile = NoFile
    /\ baseMetadata = << BaseList(remote.bases) >>
    /\ tableMetadata = << TableList(remote.tables) >>
    /\ shouldWriteJson = FALSE
    /\ cacheRead = "notTried"
    /\ fetched = << "/meta/bases", "/meta/bases/{baseId}/tables" >>
    /\ baseMeta = << TheBase >>
    /\ tableMeta = remote.tables
    /\ data = << >>
    /\ outputFile = NoOutput
    /\ error = NoError
    /\ writes = << >>
    /\ call = NoCall
    /\ NoCachedQuery

NextGen == Generate

SpecGen == InitGen /\ [][NextGen]_vars

----------------------------------------------------------------------------
(* The mappers called on their own *)

MapNames == { "Status", "favourite colour" }

MapFields ==
    UNION { { PlainField(n, t) : t \in FieldTypes \cup UnknownTypes }
            \cup { Field(n, t, p, << >>, None, None) :
                   t \in { "number", "percent", "currency" }, p \in { "0", "2" } }
            \cup { Field(n, t, None, c, None, None) :
                   t \in { "singleSelect", "multipleSelects" }, c \in ChoiceLists }
            \cup { Field(n, "multipleRecordLinks", None, << >>, "tbl1", None) }
            \cup { Field(n, t, None, << >>, None, r) :
                   t \in { "createdTime", "formula", "lastModifiedTime",
                           "multipleLookupValues", "rollup" },
                   r \in { "number", "checkbox", "singleLineText" } } :
            n \in MapNames }

MapTable == [ id |-> "tbl1", name |-> "Tasks", fields |-> << >> ]

InitMap ==
    /\ pc = "idle"
    /\ flags = Flags(FALSE, TRUE, FALSE, FALSE, << >>)
    /\ baseId = "app1"
    /\ accessToken = TRUE
    /\ remote = [ bases |-> << TheBase >>, tables |-> << >> ]
    /\ cacheFile = NoFile
    /\ baseMetadata = << >>
    /\ tableMetadata = << >>
    /\ shouldWriteJson = FALSE
    /\ cacheRead = "notTried"
    /\ fetched = << >>
    /\ baseMeta = << >>
    /\ tableMeta = << >>
    /\ data = << >>
    /\ outputFile = NoOutput
    /\ error = NoError
    /\ writes = << >>
    /\ call = NoCall
    /\ NoCachedQuery

CallGetZodType ==
    /\ pc = "idle"
    /\ \E field \in MapFields :
          call' = [ fn |-> "getZodType", field |-> field,
                    useAirtableLibraryTypes |-> FALSE,
                    result |-> getZodType(MapTable, field) ]
    /\ UNCHANGED << pc, flags, baseId, accessToken, remote, cacheFile, baseMetadata,
                    tableMetadata, shouldWriteJson, cacheRead, fetched, baseMeta,
                    tableMeta, data, outputFile, error, writes, cqVars >>

CallGetTsType ==
    /\ pc = "idle"
    /\ \E field \in MapFields, lib \in BOOLEAN :
          call' = [ fn |-> "getTsType", field |-> field,
                    useAirtableLibraryTypes |-> lib,
                    result |-> getTsType(field, [ useAirtableLibraryTypes |-> lib ]) ]
    /\ UNCHANGED << pc, flags, baseId, accessToken, remote, cacheFile, baseMetadata,
                    tableMetadata, shouldWriteJson, cacheRead, fetched, baseMeta,
                    tableMeta, data, outputFile, error, writes, cqVars >>

NextMap == CallGetZodType \/ CallGetTsType

SpecMap == InitMap /\ [][NextMap]_vars

----------------------------------------------------------------------------
(* Properties of the mappers, under SpecMap *)

Called == call.fn # "none"

Contains(text, token) == \E i \in 1..Len(text) : text[i] = token

\* C4: for a field whose type tag is outside the closed enumeration, getZodType
\* and getTsType both throw the unrecognized-field-type error, whose message
\* holds the field's name and its raw tag; neither returns a type expression.
C4_UnrecognizedTagThrows ==
    (Called /\ call.field.type \notin FieldTypes) =>
        /\ call.result.kind = "throw"
        /\ call.result.text[1] = "Unrecognized field type: "
        /\ Contains(call.result.text, call.field.name)
        /\ Contains(call.result.text, call.field.type)

C4_Witness ==
    /\ call.fn = "getTsType"
    /\ call.field.type \in UnknownTypes
    /\ call.result.kind = "throw"

\* C10 (as claimed): for every tag of the enumeration and every field metadata
\* valid for it, a choice field with any choice list included, each mapper
\* returns a non-empty string.
C10_NonEmptyType ==
    (Called /\ call.field.type \in FieldTypes) =>
        /\ call.result.kind = "return"
        /\ call.result.text # << >>

----------------------------------------------------------------------------
(* Properties of the generated module, under SpecGen *)

\* generation has returned the module
Generated == pc \in { "ensureFile", "writeFile", "writeCache", "done" }

FieldAt(ti, fi) == tableMeta[ti].fields[fi]

FieldPlaces ==
    { p \in (1..Len(tableMeta)) \X (1..MaxFields) : p[2] <= Len(tableMeta[p[1]].fields) }

\* the lines of the module pushed for field fi of table ti
EntriesOf(ti, fi) ==
    { i \in 1..Len(data) :
        data[i].kind = "field" /\ data[i].table = ti /\ data[i].field = fi }

\* '.optional()' closes the entry of the schema dialect; '?' follows the
\* quoted name in the static-typing dialect
HasOptionalMarker(text) ==
    IF flags.zod THEN text[Len(text)] = ".optional(),"
    ELSE text[4] = "?"

\* the type expression of an entry
EntryType(text) ==
    IF flags.zod THEN SubSeq(text, 4, Len(text) - 1)
    ELSE LET k == CHOOSE k \in 1..Len(text) :
                      text[k] = ": " /\ \A j \in 1..(k - 1) : text[j] # ": "
         IN  SubSeq(text, k + 1, Len(text))

\* C1: in both dialects every field of every selected table has one entry, and
\* the entry carries the optionality marker exactly when the field is not
\* readonly.
C1_OptionalIffEditable ==
    Generated =>
        \A p \in FieldPlaces :
            /\ Cardinality(EntriesOf(p[1], p[2])) = 1
            /\ \A i \in EntriesOf(p[1], p[2]) :
                  HasOptionalMarker(data[i].text) <=> ~isReadonlyField(FieldAt(p[1], p[2]))

C1_Witness ==
    /\ Generated
    /\ \E p, q \in FieldPlaces :
          /\ isReadonlyField(FieldAt(p[1], p[2]))
          /\ ~isReadonlyField(FieldAt(q[1], q[2]))
          /\ \E i \in EntriesOf(p[1], p[2]) : ~HasOptionalMarker(data[i].text)
          /\ \E i \in EntriesOf(q[1], q[2]) : HasOptionalMarker(data[i].text)

LinkPlaces == { p \in FieldPlaces : FieldAt(p[1], p[2]).type = "multipleRecordLinks" }

\* the selected tables a link field points to
LinkedTables(field) ==
    { j \in 1..Len(tableMeta) : tableMeta[j].id = field.options.linkedTableId }

\* the identifier type the module declares for table j: the name between
\* 'export type ' and ' = ' on the table's declaration line
DeclaredIdTypes(j) ==
    { SubSeq(data[i].text, 2, 3) :
        i \in { i \in 1..Len(data) : data[i].kind = "idType" /\ data[i].table = j } }

\* C2: static-typing dialect with --id: a multipleRecordLinks field is typed
\* Array<identifier type of the linked table> when the linked table is among
\* the selected tables, before or after the referencing table, and
\* Array<AirtableUid> when it is not.
C2_LinkTypeResolved ==
    (Generated /\ ~flags.zod /\ flags.id) =>
        \A p \in LinkPlaces : \A i \in EntriesOf(p[1], p[2]) :
            LET linked == LinkedTables(FieldAt(p[1], p[2]))
                type == EntryType(data[i].text)
            IN  IF linked # {}
                THEN \A j \in linked :
                        /\ DeclaredIdTypes(j) # {}
                        /\ \A name \in DeclaredIdTypes(j) :
                              type = << "Array<" >> \o name \o << ">" >>
                ELSE type = << "Array<", "AirtableUid", ">" >>

\* a link to a table declared later, and a link to a table that is not selected
C2_Witness ==
    /\ Generated /\ ~flags.zod /\ flags.id
    /\ \E p \in LinkPlaces : \E j \in LinkedTables(FieldAt(p[1], p[2])) : p[1] < j
    /\ \E p \in LinkPlaces : LinkedTables(FieldAt(p[1], p[2])) = {}

\* C3 (as claimed): schema dialect: a link field whose linked table is selected
\* is typed as a collection of that table's identifier-type name.
C3_ZodLinkNamesTable ==
    (Generated /\ flags.zod) =>
        \A p \in LinkPlaces : \A i \in EntriesOf(p[1], p[2]) :
            \A j \in LinkedTables(FieldAt(p[1], p[2])) :
                LET type == EntryType(data[i].text)
                IN  \E k \in 1..(Len(type) - 1) :
                        /\ type[k] = pascalCase(tableMeta[j].name)
                        /\ type[k + 1] = "Id"

\* C3 (amended): schema dialect: every link field is typed z.array(z.string()),
\* whether or not the linked table is selected.
C3_ZodLinkIsStringArray ==
    (Generated /\ flags.zod) =>
        \A p \in LinkPlaces : \A i \in EntriesOf(p[1], p[2]) :
            EntryType(data[i].text) = << "z.array(", "z.string()", ")" >>

C3_Witness ==
    /\ Generated /\ flags.zod
    /\ \E p \in LinkPlaces :
          /\ LinkedTables(FieldAt(p[1], p[2])) # {}
          /\ EntriesOf(p[1], p[2]) # {}

AttachmentShape == IF flags.zod THEN AttachmentZodTmpl ELSE getAdditionalTsForAttachments
CollaboratorShape == IF flags.zod THEN CollaboratorZodTmpl ELSE getAdditionalTsForCollaborators

Occurrences(text) == { i \in 1..Len(data) : data[i].text = text }

\* the lines of the per-table blocks
TableLines == { i \in 1..Len(data) : data[i].table > 0 }

OnceBeforeTables(text) ==
    /\ Cardinality(Occurrences(text)) = 1
    /\ \A i \in Occurrences(text) : \A j \in TableLines : i < j

ShapeRule(needed, text) ==
    IF needed THEN OnceBeforeTables(text) ELSE Occurrences(text) = {}

NeedsAttachmentShape == hasAttachmentField(AllFields(tableMeta))
NeedsCollaboratorShape == hasCollaboratorField(AllFields(tableMeta))

\* C6 (as claimed): in every dialect and with every flag, each shared shape is
\* emitted once, before every per-table block, when a selected table has a
\* field of its category, and not at all otherwise.
C6_ShapesOnceAlways ==
    Generated =>
        /\ ShapeRule(NeedsAttachmentShape, AttachmentShape)
        /\ ShapeRule(NeedsCollaboratorShape, CollaboratorShape)

\* C6 (amended): that holds in the schema dialect and in the static-typing
\* dialect without --controllers; with --controllers the static-typing dialect
\* emits neither shape and imports the Airtable library once, first, instead.
C6_ShapesOnceUnlessControllers ==
    Generated =>
        IF flags.zod \/ ~flags.controllers
        THEN /\ ShapeRule(NeedsAttachmentShape, AttachmentShape)
             /\ ShapeRule(NeedsCollaboratorShape, CollaboratorShape)
        ELSE /\ Occurrences(AttachmentShape) = {}
             /\ Occurrences(CollaboratorShape) = {}
             /\ Occurrences(<< "import ", "Airtable", " from 'airtable';" >>) = { 1 }

\* two tables with an attachment field each, and the shape once
C6_Witness ==
    /\ Generated
    /\ \E p, q \in FieldPlaces :
          /\ p[1] # q[1]
          /\ FieldAt(p[1], p[2]).type = "multipleAttachments"
          /\ FieldAt(q[1], q[2]).type = "multipleAttachments"
    /\ Cardinality(Occurrences(AttachmentShape)) = 1

----------------------------------------------------------------------------
(* Properties of a whole run, under Spec *)

FatalKinds ==
    { "UnrecognizedFieldType", "TableSelectionMismatch", "BaseNotFound",
      "MetadataValidationFailure" }

\* C5: the output file is touched only after the whole module was generated,
\* what is written to it is that module, and a run that a fatal error ended
\* has written no output file.
C5_OutputAllOrNothing ==
    /\ outputFile.exists => (Generated /\ error = NoError)
    /\ outputFile.content # << >> => outputFile.content = data
    /\ (pc = "aborted" /\ error.kind \in FatalKinds) => outputFile = NoOutput
    /\ pc = "done" => (outputFile.exists /\ outputFile.content = data /\ data # << >>)

C5_Witness ==
    /\ pc = "aborted"
    /\ error.kind = "UnrecognizedFieldType"
    /\ Len(tableMeta) >= 2
    /\ outputFile = NoOutput

\* getTableMetadata has run the allow-list against the fetched tables
AllowListApplied ==
    /\ flags.tables # << >>
    /\ \/ pc \in { "generate", "ensureFile", "writeFile", "writeCache", "done" }
       \/ pc = "aborted" /\ error.kind \in { "TableSelectionMismatch",
                                             "UnrecognizedFieldType" }

Matches(table, entry) == table.id = entry \/ table.name = entry

\* C7 (as claimed): with an allow-list, getTableMetadata aborts exactly when
\* some requested entry matches no fetched table, and otherwise returns the
\* matched tables in base order.
C7_AbortIffUnmatched ==
    AllowListApplied =>
        LET allowlist == flags.tables[1]
            tables == tableMetadata[1].tables
            unmatched == \E k \in 1..Len(allowlist) :
                            \A i \in 1..Len(tables) : ~Matches(tables[i], allowlist[k])
        IN  /\ (error.kind = "TableSelectionMismatch") <=> unmatched
            /\ ~unmatched => tableMeta = FilterTables(tables, allowlist)

\* the cache file is there and is no cache: not JSON, a key missing, or keys
\* holding something that is not metadata
Malformed(file) ==
    /\ file.exists
    /\ \/ ~file.parses
       \/ file.json.baseMetadata = << >>
       \/ file.json.tableMetadata = << >>
       \/ ~file.json.baseMetadata[1].shapeOk
       \/ ~file.json.tableMetadata[1].shapeOk

\* C8 (as claimed): a malformed cache file is a cache miss: nothing of it is
\* used, and the run does not end in a validation failure.
C8_MalformedCacheIsMiss ==
    (flags.jsoncache /\ pc # "start" /\ Malformed(cacheFile)) =>
        /\ cacheRead = "miss"
        /\ error.kind # "MetadataValidationFailure"

\* C9: once tryReadJsonCache has returned true, the run makes no request
\* through fetchAirtableApi: the metadata it works on is the cached metadata.
C9_CacheHitNoFetch ==
    cacheRead = "hit" =>
        /\ fetched = << >>
        /\ baseMetadata = cacheFile.json.baseMetadata
        /\ tableMetadata = cacheFile.json.tableMetadata

C9_Witness ==
    /\ cacheRead = "hit"
    /\ pc = "done"
    /\ fetched = << >>
    /\ tableMeta = cacheFile.json.tableMetadata[1].tables

----------------------------------------------------------------------------
(* The cache file, under Spec *)

CacheWritten == Contains(writes, "writeJSON(jsoncache)")

\* what the metadata API served, as the run stores it
FetchedJson ==
    [ baseMetadata |-> << BaseList(remote.bases) >>,
      tableMetadata |-> << TableList(remote.tables) >> ]

\* C11: with --jsoncache, a cache file that is not there is a miss, and a run
\* that completes after a miss writes the fetched base-list and table-list
\* metadata to it, after the output file was written; after a hit, and
\* without the flag, the run never writes the cache file.
C11_CacheWrittenOnMissOnly ==
    /\ (flags.jsoncache /\ pc # "start" /\ ~cacheFile.exists) => cacheRead = "miss"
    /\ (flags.jsoncache /\ pc = "done" /\ cacheRead = "miss") => CacheWritten
    /\ CacheWritten =>
          /\ flags.jsoncache
          /\ cacheRead = "miss"
          /\ writes = << "ensureFile(output)", "writeFile(output)",
                         "writeJSON(jsoncache)" >>
          /\ outputFile = [ exists |-> TRUE, content |-> data ]
          /\ cacheFile = [ exists |-> TRUE, parses |-> TRUE, json |-> FetchedJson ]
    /\ (cacheRead = "hit" \/ ~flags.jsoncache) => ~CacheWritten

C11_Witness ==
    /\ pc = "done"
    /\ flags.jsoncache
    /\ cacheRead = "miss"
    /\ CacheWritten
    /\ cacheFile.json = FetchedJson
    /\ flags.tables # << >>

----------------------------------------------------------------------------
(* Shared names of the generated module, under SpecGen *)

SharedNames ==
    { "AirtableAttachmentSchema", "AirtableCollaboratorSchema",
      "IAirtableAttachment", "IAirtableCollaborator", "Airtable" }

\* token k of a line declares or imports the name it holds
DeclaresAt(text, k) ==
    /\ k > 1
    /\ text[k - 1] \in { "export const ", "export interface ", "export type ",
                         "import " }

DeclaredBefore(name, i) ==
    \E j \in 1..(i - 1) : \E k \in 1..Len(data[j].text) :
        data[j].text[k] = name /\ DeclaresAt(data[j].text, k)

\* C13 (as claimed): in every dialect and with every flag, a shared name that
\* a line of the module refers to is declared or imported by an earlier line.
C13_SharedNamesDeclared ==
    Generated =>
        \A i \in 1..Len(data) : \A k \in 1..Len(data[i].text) :
            (data[i].text[k] \in SharedNames /\ ~DeclaresAt(data[i].text, k))
                => DeclaredBefore(data[i].text[k], i)

----------------------------------------------------------------------------
(* static/typed-table: CachedQuery.  Rows are known by the number of the   *)
(* table.select call that returned them.                                   *)

runVars == << pc, flags, baseId, accessToken, remote, cacheFile, baseMetadata,
              tableMetadata, shouldWriteJson, cacheRead, fetched, baseMeta,
              tableMeta, data, outputFile, error, writes, call >>

InitCache ==
    /\ pc = "idle"
    /\ flags = Flags(FALSE, TRUE, TRUE, FALSE, << >>)
    /\ baseId = "app1"
    /\ accessToken = TRUE
    /\ remote = [ bases |-> << TheBase >>, tables |-> << >> ]
    /\ cacheFile = NoFile
    /\ baseMetadata = << >>
    /\ tableMetadata = << >>
    /\ shouldWriteJson = FALSE
    /\ cacheRead = "notTried"
    /\ fetched = << >>
    /\ baseMeta = << >>
    /\ tableMeta = << >>
    /\ data = << >>
    /\ outputFile = NoOutput
    /\ error = NoError
    /\ writes = << >>
    /\ call = NoCall
    /\ NoCachedQuery

\* fetch() up to its await: with nothing cached it issues table.select and
\* waits for it, otherwise it returns what is cached
FetchStart(i) ==
    /\ fetchers[i].pc = "idle"
    /\ IF cached = << >>
       THEN /\ selects' = selects + 1
            /\ fetchers' = [ fetchers EXCEPT ![i] =
                  [ pc |-> "awaiting", mark |-> flushMark,
                    select |-> selects + 1, result |-> 0 ] ]
       ELSE /\ fetchers' = [ fetchers EXCEPT ![i] =
                  [ pc |-> "resolved", mark |-> flushMark,
                    select |-> 0, result |-> cached[1] ] ]
            /\ UNCHANGED selects
    /\ UNCHANGED << cached, flushMark, runVars >>

\* the awaited select resolves: this.cached = rows; return this.cached
FetchResume(i) ==
    /\ fetchers[i].pc = "awaiting"
    /\ cached' = << fetchers[i].select >>
    /\ fetchers' = [ fetchers EXCEPT ![i].pc = "resolved",
                                     ![i].result = fetchers[i].select ]
    /\ UNCHANGED << selects, flushMark, runVars >>

\* the awaited select rejects: fetch() rejects, this.cached is not assigned
FetchReject(i) ==
    /\ fetchers[i].pc = "awaiting"
    /\ fetchers' = [ fetchers EXCEPT ![i].pc = "rejected" ]
    /\ UNCHANGED << cached, selects, flushMark, runVars >>

\* flush(): this.cached = undefined
Flush ==
    /\ cached' = << >>
    /\ flushMark' = selects
    /\ UNCHANGED << selects, fetchers, runVars >>

NextCache ==
    \/ \E i \in 1..MaxFetches : FetchStart(i)
    \/ \E i \in 1..MaxFetches : FetchResume(i)
    \/ \E i \in 1..MaxFetches : FetchReject(i)
    \/ Flush

SpecCache == InitCache /\ [][NextCache]_vars

\* C12 (as claimed): a fetch() started after a flush() has returned resolves
\* with rows of a table.select issued after that flush, and a fetch() that
\* was in flight at the flush never puts its rows into the cache.
C12_FetchAfterFlushIsFresh ==
    /\ \A i \in 1..MaxFetches :
          fetchers[i].pc = "resolved" => fetchers[i].result > fetchers[i].mark
    /\ cached # << >> => cached[1] > flushMark

====
